---- MODULE Spec2Model ----
(***************************************************************************)
(* Dosage projection of the pill-doser client (src/script.js).             *)
(*                                                                         *)
(* Numbers.  The client computes in IEEE doubles; the model computes in    *)
(* exact rationals.  An instant is a count of milliseconds.  A number of   *)
(* hours is kept as the count of milliseconds it spans (hours * MsPerHour).*)
(* A rate is a fraction [n, d] of units per hour.  A dosage quantity       *)
(* computed under rate r is kept as its numerator over Scale(r) =          *)
(* r.d * MsPerHour, so "rate * hours" is r.n * ms and an amount a is       *)
(* a * Scale(r).                                                           *)
(***************************************************************************)
EXTENDS Integers, Sequences, FiniteSets, TLC

MsPerHour == 3600000

\* Bound of the explored inputs: the longest event list.
MaxEvents == 2

(***************************************************************************)
(* Input domains.                                                          *)
(***************************************************************************)
\* Tick k of the time grid: even ticks are 12 hours apart, an odd tick is one
\* millisecond after the even tick before it.
TimeOfTick(k) == (k \div 2) * (12 * MsPerHour) + (k % 2)

\* A parsed number: nan is what parseFloat gives for a non-numeric text.
Num(v) == [v |-> v, nan |-> FALSE]
NaN == [v |-> 0, nan |-> TRUE]

\* A luxon DateTime: an instant in milliseconds, or invalid.
DT(ms) == [ms |-> ms, valid |-> TRUE]
InvalidDT == [ms |-> 0, valid |-> FALSE]

\* Event times T0, T0 + 1ms and T0 + 12h; amounts not numeric, negative, zero
\* and positive, as the sheet can return them.
EventTimes == {DT(TimeOfTick(k)) : k \in 0..2}
EventAmounts == {NaN} \cup {Num(v) : v \in (0 - 1)..1}
EventValues == [dosageTime : EventTimes, dosageAmount : EventAmounts]

RECURSIVE SeqsUpTo(_, _)
SeqsUpTo(S, n) ==
    IF n = 0 THEN {<<>>}
    ELSE LET shorter == SeqsUpTo(S, n - 1)
         IN shorter \cup {Append(s, e) : s \in {x \in shorter : Len(x) = n - 1}, e \in S}

EventLists == SeqsUpTo(EventValues, MaxEvents)

\* The rows handleGetData can answer with: a date cell that parses or does not,
\* a value cell that is a number or blank (null, a NaN once parsed).
SheetRowValues ==
    [date : EventTimes, value : EventAmounts] \cup {[date |-> InvalidDT, value |-> Num(1)]}
SheetAnswers == SeqsUpTo(SheetRowValues, MaxEvents)

\* The clock: T0 or T0 + 24h.
NowValues == {TimeOfTick(0), TimeOfTick(4)}

\* What the pills and hour inputs can hold, after parseFloat.
PillsInputs == {Num(0 - 1), Num(1)}
HourInputs == {NaN, Num(0), Num(12)}

(***************************************************************************)
(* Time arithmetic and rate.                                               *)
(***************************************************************************)
Abs(x) == IF x < 0 THEN 0 - x ELSE x

\* Variant: the difference keeps its sign.
SignedHoursBetween(dt1, dt2) ==
    IF ~dt1.valid \/ ~dt2.valid THEN 0 ELSE dt2.ms - dt1.ms

\* calculateHoursBetween: |dt2 - dt1| in hours (as milliseconds), 0 when either
\* argument is not a valid DateTime.
calculateHoursBetween(dt1, dt2) ==
    IF ~dt1.valid \/ ~dt2.valid THEN 0 ELSE Abs(dt2.ms - dt1.ms)

\* n / d for d # 0, rounded towards minus infinity.
SignedDiv(n, d) == IF d > 0 THEN n \div d ELSE (0 - n) \div (0 - d)

ZeroRate == [n |-> 0, d |-> 1]

\* The rate set by updateRateDisplay from the two parsed inputs.
RateOf(pills, hours) ==
    IF ~pills.nan /\ ~hours.nan /\ hours.v # 0
    THEN IF hours.v > 0 THEN [n |-> pills.v, d |-> hours.v]
         ELSE [n |-> 0 - pills.v, d |-> 0 - hours.v]
    ELSE ZeroRate

Scale(rate) == rate.d * MsPerHour

\* firstEventDT.minus({ hours: amount / currentRate }).  luxon refuses a NaN
\* duration (InvalidArgumentError); an infinite one gives an invalid DateTime.
ProjectedStart(firstDT, amount, rate) ==
    IF amount.nan \/ (rate.n = 0 /\ amount.v = 0)
    THEN [throws |-> TRUE, dt |-> InvalidDT]
    ELSE IF rate.n = 0
    THEN [throws |-> FALSE, dt |-> InvalidDT]
    ELSE [throws |-> FALSE,
          dt |-> DT(firstDT.ms - SignedDiv(amount.v * rate.d * MsPerHour, rate.n))]

(***************************************************************************)
(* calculatePlotData.                                                      *)
(***************************************************************************)
\* The events calculatePlotData keeps: valid time, numeric amount >= 0.
PlotValid(e) ==
    e.dosageTime.valid /\ ~e.dosageAmount.nan /\ e.dosageAmount.v >= 0

\* Variant: the array is left in the order of arrival.
InsertAtEnd(sorted, e) == Append(sorted, e)

\* Array.prototype.sort with the comparator a.ms - b.ms: stable, ascending.
RECURSIVE InsertByTime(_, _)
InsertByTime(sorted, e) ==
    IF sorted = <<>> THEN <<e>>
    ELSE IF Head(sorted).dosageTime.ms <= e.dosageTime.ms
    THEN <<Head(sorted)>> \o InsertByTime(Tail(sorted), e)
    ELSE <<e>> \o sorted

RECURSIVE SortByTime(_)
SortByTime(s) ==
    IF s = <<>> THEN <<>>
    ELSE InsertByTime(SortByTime(SubSeq(s, 1, Len(s) - 1)), s[Len(s)])

\* Variant: the dose is not added to the running total.
CumulativeUnchanged(cum, e) == cum

\* cumulativeDosageTaken += dosageAmount
CumulativeAfter(cum, e) == cum + e.dosageAmount.v

\* One pass of the forEach body over a sorted event.
PlotStep(acc, e, ps, rate) ==
    LET t == e.dosageTime.ms
        ideal == rate.n * calculateHoursBetween(ps, e.dosageTime)
        before == ideal - acc.cum * Scale(rate)
        last == acc.labels[Len(acc.labels)]
        pre == IF t # last
               THEN [labels |-> Append(acc.labels, t - 1),
                     data |-> Append(acc.data, before)]
               ELSE [labels |-> acc.labels,
                     data |-> [acc.data EXCEPT ![Len(acc.data)] = before]]
        cum == CumulativeAfter(acc.cum, e)
    IN [cum |-> cum,
        labels |-> Append(pre.labels, t),
        data |-> Append(pre.data, ideal - cum * Scale(rate))]

RECURSIVE PlotLoop(_, _, _, _)
PlotLoop(acc, evs, ps, rate) ==
    IF evs = <<>> THEN acc
    ELSE PlotLoop(PlotStep(acc, Head(evs), ps, rate), Tail(evs), ps, rate)

\* Variant: the final point is appended wherever now lies.
PlotNowAlways(acc, ps, rate, nowMs) ==
    [labels |-> Append(acc.labels, nowMs),
     data |-> Append(acc.data,
                     rate.n * calculateHoursBetween(ps, DT(nowMs)) - acc.cum * Scale(rate))]

\* The final point: appended when now is after the last label, written over the
\* last point when now equals it, and left out when now is before it.
PlotNow(acc, ps, rate, nowMs) ==
    LET last == acc.labels[Len(acc.labels)]
        v == rate.n * calculateHoursBetween(ps, DT(nowMs)) - acc.cum * Scale(rate)
    IN IF nowMs > last
       THEN [labels |-> Append(acc.labels, nowMs), data |-> Append(acc.data, v)]
       ELSE IF nowMs = last
       THEN [labels |-> acc.labels, data |-> [acc.data EXCEPT ![Len(acc.data)] = v]]
       ELSE [labels |-> acc.labels, data |-> acc.data]

\* calculatePlotData(events) under currentRate = rate > 0 and getLocalNow() = nowMs.
\* data[i] is the deficit at labels[i], as a numerator over Scale(rate).
calculatePlotData(evs, rate, nowMs) ==
    LET sortedEvents == SortByTime(SelectSeq(evs, PlotValid))
    IN IF sortedEvents = <<>> THEN [labels |-> <<>>, data |-> <<>>]
       ELSE LET first == sortedEvents[1].dosageTime
                ps == ProjectedStart(first, sortedEvents[1].dosageAmount, rate).dt
                start == [cum |-> 0,
                          labels |-> <<ps.ms, first.ms - 1>>,
                          data |-> <<0, rate.n * calculateHoursBetween(ps, first)>>]
            IN PlotNow(PlotLoop(start, sortedEvents, ps, rate), ps, rate, nowMs)

\* Variant: an empty event list is not turned away ahead of calculatePlotData.
plotDosageGraphOfAnyList(evs, rate, nowMs) ==
    IF rate.n <= 0
    THEN [labels |-> <<>>, data |-> <<>>, kind |-> "nodata", scale |-> 1]
    ELSE LET pd == calculatePlotData(evs, rate, nowMs)
         IN IF pd.labels = <<>> /\ pd.data = <<>>
            THEN [labels |-> <<>>, data |-> <<>>, kind |-> "notenough", scale |-> 1]
            ELSE [labels |-> pd.labels, data |-> pd.data, kind |-> "chart",
                  scale |-> Scale(rate)]

\* What plotDosageGraph leaves in the chart container.
plotDosageGraph(evs, rate, nowMs) ==
    IF evs = <<>> \/ rate.n <= 0
    THEN [labels |-> <<>>, data |-> <<>>, kind |-> "nodata", scale |-> 1]
    ELSE LET pd == calculatePlotData(evs, rate, nowMs)
         IN IF pd.labels = <<>> /\ pd.data = <<>>
            THEN [labels |-> <<>>, data |-> <<>>, kind |-> "notenough", scale |-> 1]
            ELSE [labels |-> pd.labels, data |-> pd.data, kind |-> "chart",
                  scale |-> Scale(rate)]

(***************************************************************************)
(* updateStatisticsDisplay.                                                *)
(***************************************************************************)
StatIds == {"needed", "totalGiven", "totalNeeded", "half", "half_time", "one", "one_time"}

\* The innerText of a statistic element: 'N/A', the page's own content before
\* any write, a number printed with toFixed (v counts units of 10^-digits), or a
\* clock time (v is the minute of the day).
NAText == [k |-> "N/A", v |-> 0]
InitialText == [k |-> "initial", v |-> 0]
NumText(v) == [k |-> "number", v |-> v]
TimeText(v) == [k |-> "time", v |-> v]

\* Number.prototype.toFixed(digits) of n / d (d > 0): the nearest multiple of
\* 10^-digits, the larger magnitude on a tie, as a signed count of such units.
RECURSIVE FixedDigits(_, _, _, _)
FixedDigits(q, r, d, digits) ==
    IF digits = 0 THEN (IF 2 * r >= d THEN q + 1 ELSE q)
    ELSE FixedDigits(q * 10 + (r * 10) \div d, (r * 10) % d, d, digits - 1)

toFixed(n, d, digits) ==
    LET m == FixedDigits(Abs(n) \div d, Abs(n) % d, d, digits)
    IN IF n < 0 THEN 0 - m ELSE m

\* formatTimeOffset: the clock time (minute of the day) offsetMs after now.
formatTimeOffset(offsetMs, nowMs) == ((nowMs + offsetMs) \div 60000) % 1440

\* Variant: a negative amount is dropped, as calculatePlotData drops it.
AmountIfNotNegative(e) ==
    IF e.dosageAmount.nan \/ e.dosageAmount.v < 0 THEN 0 ELSE e.dosageAmount.v

\* parseFloat(e.dosageAmount) || 0
AmountOrZero(e) == IF e.dosageAmount.nan THEN 0 ELSE e.dosageAmount.v

RECURSIVE SumAmounts(_)
SumAmounts(evs) ==
    IF evs = <<>> THEN 0 ELSE AmountOrZero(Head(evs)) + SumAmounts(Tail(evs))

\* Variant: the hours are counted from the first event only.
HoursElapsedFromFirstDose(ps, firstEventDT, nowMs) ==
    calculateHoursBetween(firstEventDT, DT(nowMs))

\* hoursElapsed: from the projected start to the first event, then on to now.
HoursElapsed(ps, firstEventDT, nowMs) ==
    calculateHoursBetween(ps, firstEventDT) + calculateHoursBetween(firstEventDT, DT(nowMs))

\* Variant: the difference is not clamped.
CurrentNeededUnclamped(totalNeededIdeal, totalGiven) == totalNeededIdeal - totalGiven

\* Math.max(0, totalNeededIdeal - totalGiven)
CurrentNeeded(totalNeededIdeal, totalGiven) ==
    IF totalNeededIdeal - totalGiven > 0 THEN totalNeededIdeal - totalGiven ELSE 0

\* Variant: the offset of the older client, (|currentNeeded| + threshold) / rate.
ThresholdOffsetAdded(threshold, currentNeeded) == Abs(currentNeeded) + threshold

\* (threshold - currentNeeded) / currentRate, as a numerator over
\* MsPerHour * rate.n hours.
ThresholdOffset(threshold, currentNeeded) == threshold - currentNeeded

NoValues ==
    [scale |-> 1, totalGiven |-> 0, totalNeeded |-> 0, needed |-> 0,
     thresholds |-> FALSE, half |-> 0, one |-> 0, perHour |-> 1]

\* updateStatisticsDisplay(events) under currentRate = rate, getLocalNow() =
\* nowMs and the statistic elements holding text.  call tells how the call ended:
\*   "na"       every element set to 'N/A' (no events and rate 0)
\*   "returned" the early return on a missing or invalid first event time
\*   "threw"    the exception of firstEventDT.minus on a NaN duration
\*   "shown"    the statistics were written
\* values holds the numbers before formatting: totalGiven in units, totalNeeded
\* and needed as numerators over scale, half and one (hours) over perHour.
updateStatisticsDisplay(evs, rate, nowMs, text) ==
    IF evs = <<>> /\ rate.n = 0
    THEN [text |-> [id \in StatIds |-> NAText], call |-> "na", values |-> NoValues]
    ELSE IF evs = <<>> \/ ~evs[1].dosageTime.valid
    THEN [text |-> text, call |-> "returned", values |-> NoValues]
    ELSE
    LET totalGiven == SumAmounts(evs)
        firstEventDT == evs[1].dosageTime
        ps == ProjectedStart(firstEventDT, evs[1].dosageAmount, rate)
        hoursElapsed == HoursElapsed(ps.dt, firstEventDT, nowMs)
        sc == Scale(rate)
        totalNeededIdeal == rate.n * hoursElapsed
        currentNeeded == CurrentNeeded(totalNeededIdeal, totalGiven * sc)
        halfN == ThresholdOffset(sc \div 2, currentNeeded)
        oneN == ThresholdOffset(sc, currentNeeded)
        perHour == MsPerHour * rate.n
        base == [id \in StatIds |->
                   CASE id = "needed" -> NumText(toFixed(currentNeeded, sc, 1))
                     [] id = "totalGiven" -> NumText(toFixed(totalGiven, 1, 1))
                     [] id = "totalNeeded" -> NumText(toFixed(totalNeededIdeal, sc, 2))
                     [] OTHER -> NAText]
    IN IF ps.throws
       THEN [text |-> text, call |-> "threw", values |-> NoValues]
       ELSE IF rate.n > 0
       THEN [text |-> [base EXCEPT
                         !["half"] = NumText(toFixed(halfN, perHour, 1)),
                         !["half_time"] = TimeText(formatTimeOffset(halfN \div rate.n, nowMs)),
                         !["one"] = NumText(toFixed(oneN, perHour, 1)),
                         !["one_time"] = TimeText(formatTimeOffset(oneN \div rate.n, nowMs))],
             call |-> "shown",
             values |-> [scale |-> sc, totalGiven |-> totalGiven,
                         totalNeeded |-> totalNeededIdeal, needed |-> currentNeeded, thresholds |-> TRUE,
                         half |-> halfN, one |-> oneN, perHour |-> perHour]]
       ELSE [text |-> base, call |-> "shown",
             values |-> [scale |-> sc, totalGiven |-> totalGiven,
                         totalNeeded |-> totalNeededIdeal, needed |-> currentNeeded, thresholds |-> FALSE,
                         half |-> 0, one |-> 0, perHour |-> 1]]

(***************************************************************************)
(* State and handlers.                                                     *)
(***************************************************************************)
VARIABLES
    eventsData,     \* the event list handed to the two functions
    pillsValue,     \* parsed content of the pills input
    hourValue,      \* parsed content of the hour input
    currentRate,    \* units per hour, [n, d]
    now,            \* getLocalNow(), in milliseconds
    statsText,      \* innerText of the statistic elements
    stats,          \* how the last call of updateStatisticsDisplay ended, and its numbers
    chart,          \* what the last call of plotDosageGraph left in the chart container
    plotted,        \* whether the last handler reached plotDosageGraph
    loading,        \* initializeApp is waiting for the sheet, behind the overlay
    sheetAnswer,    \* the answer to the 'get' request of the handler that ran last
    sheet,          \* the rows of the Google sheet, top to bottom
    sheetCall,      \* the last request the sheet script served, and its result
    timeZone,       \* the configured time zone
    systemZone,     \* the zone of the browser, luxon's default zone
    table,          \* the rows of the event table, with their data-raw-time
    overlay,        \* whether the loading overlay is displayed
    requests,       \* the fetchFromSheet calls awaiting their response
    done            \* the handler that went on last after its request, and the result it got

\* What the page holds beside the list, the inputs and the display.
pageVars == <<timeZone, systemZone, table, overlay, requests, done>>

clientVars ==
    <<eventsData, pillsValue, hourValue, currentRate, now, statsText, stats, chart,
      plotted, loading, sheetAnswer, pageVars>>

sheetVars == <<sheet, sheetCall>>

vars == <<clientVars, sheetVars>>

\* No request served yet.
NoSheetCall ==
    [date |-> "", before |-> <<>>, data |-> <<>>, action |-> "none", success |-> FALSE,
     removed |-> "absent", changed |-> "absent", floatValue |-> ""]

\* The answers of fetchFromSheet('get'): none in a handler that does not send
\* the request, the failure object of its catch (or an answer with success
\* false), or a successful answer with its data rows.
NoAnswer == [data |-> <<>>, status |-> "none"]
FailedAnswer == [data |-> <<>>, status |-> "failed"]
OkAnswer(rows) == [data |-> rows, status |-> "ok"]

\* No handler has gone on after a request yet.
NoneDone == [success |-> FALSE, removed |-> "absent", handler |-> "none"]

\* The page where the table, the overlay and the requests are not followed.
PageAtRest ==
    /\ timeZone = "UTC"
    /\ systemZone = "UTC"
    /\ table = <<>>
    /\ overlay = TRUE
    /\ requests = <<>>
    /\ done = NoneDone

NoCall == [call |-> "none", values |-> NoValues]
InitialChart == [labels |-> <<>>, data |-> <<>>, kind |-> "initial", scale |-> 1]

\* Variant: calculatePlotData filters and sorts the caller's array itself.
ListFilteredInPlace(evs) == SortByTime(SelectSeq(evs, PlotValid))

\* The caller's array after updateStatisticsDisplay and plotDosageGraph: the
\* first only reads it, calculatePlotData works on the copy [...events].
ListAfterProjection(evs) == evs

\* updateStatisticsDisplay(evs); plotDosageGraph(evs), evs being eventsData: the
\* second call is not reached when the first throws.
Refresh(evs, rate) ==
    LET st == updateStatisticsDisplay(evs, rate, now, statsText)
    IN /\ statsText' = st.text
       /\ stats' = [call |-> st.call, values |-> st.values]
       /\ IF st.call = "threw"
          THEN chart' = chart /\ plotted' = FALSE /\ eventsData' = evs
          ELSE /\ chart' = plotDosageGraph(evs, rate, now)
               /\ plotted' = TRUE
               /\ eventsData' = ListAfterProjection(evs)

\* initializeApp up to its await: the event list is empty, the inputs are
\* restored from storage, and updateRateDisplay has set the rate and, with a
\* rate > 0, refreshed the display of the empty list.
Init ==
    /\ eventsData = <<>>
    /\ now \in NowValues
    /\ pillsValue \in PillsInputs
    /\ hourValue \in HourInputs
    /\ currentRate = RateOf(pillsValue, hourValue)
    /\ statsText = [id \in StatIds |-> InitialText]
    /\ stats = IF currentRate.n > 0 THEN [call |-> "returned", values |-> NoValues] ELSE NoCall
    /\ chart = IF currentRate.n > 0 THEN plotDosageGraph(<<>>, currentRate, now) ELSE InitialChart
    /\ plotted = (currentRate.n > 0)
    /\ loading = TRUE
    /\ sheetAnswer = NoAnswer
    /\ sheet = <<>>
    /\ sheetCall = NoSheetCall
    /\ PageAtRest

\* Variant: no row is filtered out.
RowAlwaysKept(row) == TRUE

\* The rows initializeApp keeps: those whose date parses.
RowKept(row) == row.date.valid

\* { dosageAmount: parseFloat(e.value), dosageTime: ...toISO() }
RECURSIVE MapRows(_)
MapRows(rows) ==
    IF rows = <<>> THEN <<>>
    ELSE <<[dosageTime |-> Head(rows).date, dosageAmount |-> Head(rows).value]>>
         \o MapRows(Tail(rows))

\* getEventsFromSheet: the rows of a successful answer, [] for a failed fetch.
getEventsFromSheet(answer) == IF answer.status = "ok" THEN answer.data ELSE <<>>

\* initializeApp from its await on: a non-empty answer is filtered, mapped and
\* sorted into eventsData; the display is refreshed and the overlay removed.
initializeApp(answer) ==
    /\ loading
    /\ sheetAnswer' = answer
    /\ LET sheetEvents == getEventsFromSheet(answer)
           evs == IF Len(sheetEvents) > 0
                  THEN SortByTime(MapRows(SelectSeq(sheetEvents, RowKept)))
                  ELSE eventsData
       IN Refresh(evs, currentRate)
    /\ loading' = FALSE
    /\ UNCHANGED <<pillsValue, hourValue, currentRate, now>>
    /\ UNCHANGED sheetVars
    /\ UNCHANGED pageVars

\* handleInputChange(key) with updateRateDisplay: the rate is recomputed and the
\* display refreshed unless there is nothing to show.
handleInputChange(key, value) ==
    /\ ~loading
    /\ LET pills == IF key = "pills" THEN value ELSE pillsValue
           hours == IF key = "hour" THEN value ELSE hourValue
           rate == RateOf(pills, hours)
       IN /\ pillsValue' = pills
          /\ hourValue' = hours
          /\ currentRate' = rate
          /\ IF Len(eventsData) > 0 \/ rate.n > 0
             THEN Refresh(eventsData, rate)
             ELSE /\ stats' = NoCall
                  /\ plotted' = FALSE
                  /\ UNCHANGED <<statsText, chart, eventsData>>
    /\ sheetAnswer' = NoAnswer
    /\ UNCHANGED <<now, loading>>
    /\ UNCHANGED sheetVars
    /\ UNCHANGED pageVars

\* addNewEventHandler after the sheet accepted the event: push, sort, refresh.
addNewEventHandler(amount, timeMs) ==
    /\ ~loading
    /\ Len(eventsData) < MaxEvents
    /\ ~amount.nan /\ amount.v > 0
    /\ LET newEvent == [dosageTime |-> DT(timeMs), dosageAmount |-> amount]
           evs == SortByTime(Append(eventsData, newEvent))
       IN Refresh(evs, currentRate)
    /\ sheetAnswer' = NoAnswer
    /\ UNCHANGED <<pillsValue, hourValue, currentRate, now, loading>>
    /\ UNCHANGED sheetVars
    /\ UNCHANGED pageVars

\* removeDosageEntryHandler after the sheet removed the row: every event at that
\* instant is dropped, then the display is refreshed.
removeDosageEntryHandler(timeMs) ==
    /\ ~loading
    /\ \E i \in 1..Len(eventsData) : eventsData[i].dosageTime = DT(timeMs)
    /\ LET Other(e) == e.dosageTime.ms # timeMs
           evs == SelectSeq(eventsData, Other)
       IN Refresh(evs, currentRate)
    /\ sheetAnswer' = NoAnswer
    /\ UNCHANGED <<pillsValue, hourValue, currentRate, now, loading>>
    /\ UNCHANGED sheetVars
    /\ UNCHANGED pageVars

Next ==
    \/ \E rows \in SheetAnswers : initializeApp(OkAnswer(rows))
    \/ initializeApp(FailedAnswer)
    \/ \E v \in PillsInputs : handleInputChange("pills", v)
    \/ \E v \in HourInputs : handleInputChange("hour", v)
    \/ \E a \in EventAmounts, t \in EventTimes : addNewEventHandler(a, t.ms)
    \/ \E t \in EventTimes : removeDosageEntryHandler(t.ms)

Spec == Init /\ [][Next]_vars

(***************************************************************************)
(* The sheet script (src/unnamed/part_000).  A row is a date cell and a    *)
(* value cell; the script stores the date as a string.                     *)
(***************************************************************************)
DATE_HEADER == "Date"
AMOUNT_HEADER == "Amount"
HeaderRow == [date |-> DATE_HEADER, value |-> AMOUNT_HEADER]

\* The zones of the page, and the texts DateTime.toISO() gives for T0 and
\* T0 + 12h in them: the dates the page sends.
Zones == {"UTC", "America/New_York"}
IsoTexts ==
    {[ms |-> TimeOfTick(0), text |-> "2024-01-01T08:00:00.000Z", zone |-> "UTC"],
     [ms |-> TimeOfTick(2), text |-> "2024-01-01T20:00:00.000Z", zone |-> "UTC"],
     [ms |-> TimeOfTick(0), text |-> "2024-01-01T03:00:00.000-05:00",
      zone |-> "America/New_York"],
     [ms |-> TimeOfTick(2), text |-> "2024-01-01T15:00:00.000-05:00",
      zone |-> "America/New_York"]}

\* The 'date' parameters of the requests: two timestamps, the first one once
\* more with blanks around it, an empty text, a text of blanks, a text that is
\* no timestamp and one that has the shape of a date but names no day.
Key1 == "2024-01-01T08:00:00Z"
Key2 == "2024-01-01T20:00:00Z"
PaddedKey1 == " 2024-01-01T08:00:00Z "
BlankText == "   "
NoSuchDay == "2024-13-45"
DateParams == {Key1, Key2, PaddedKey1, "", BlankText, "yesterday", NoSuchDay}

\* The 'floatValue' parameters of the requests.
ValueParams == {"1", "2", "abc", "1abc", ""}

\* String.prototype.trim
Trim(str) ==
    CASE str = PaddedKey1 -> Key1
      [] str = BlankText -> ""
      [] OTHER -> str

\* isoDateTimeRegex.test(str) || isoDateOnlyRegex.test(str): digits in the
\* places of a date, or of a date and time, and nothing around them.
IsIsoString(str) ==
    str \in {Key1, Key2, NoSuchDay} \/ str \in {e.text : e \in IsoTexts}

\* parseFloat(String(floatValueStr)): the number the text begins with.
ParseFloat(str) ==
    CASE str \in {"1", "1abc"} -> Num(1)
      [] str = "2" -> Num(2)
      [] OTHER -> NaN

\* Variant: the headers are written over the first row.
HeadersWrittenOver(rows) ==
    IF rows = <<>> THEN <<HeaderRow>>
    ELSE IF rows[1] # HeaderRow THEN <<HeaderRow>> \o Tail(rows)
    ELSE rows

\* _internalEnsureHeaders: the headers are written into an empty sheet, or
\* inserted above a first row that does not hold them.
internalEnsureHeaders(rows) ==
    IF rows = <<>> THEN <<HeaderRow>>
    ELSE IF rows[1] # HeaderRow THEN <<HeaderRow>> \o rows
    ELSE rows

\* The 'changed' of its result.
headersChanged(rows) == rows = <<>> \/ rows[1] # HeaderRow

\* sheet.deleteRow(i)
deleteRow(rows, i) == SubSeq(rows, 1, i - 1) \o SubSeq(rows, i + 1, Len(rows))

\* Variant: the scan runs from the top and takes the first match.
TopMatch(rows, target) ==
    LET hits == {i \in 2..Len(rows) : Trim(rows[i].date) = target}
    IN IF hits = {} THEN 0 ELSE CHOOSE i \in hits : \A j \in hits : i <= j

\* The row the scan of handleRemoveData stops at: the first one from the bottom,
\* the header row left out, whose date cell trimmed is the target; 0 if none.
BottomMatch(rows, target) ==
    LET hits == {i \in 2..Len(rows) : Trim(rows[i].date) = target}
    IN IF hits = {} THEN 0 ELSE CHOOSE i \in hits : \A j \in hits : i >= j

\* What a handler of the script returns, with the rows it leaves in the sheet:
\* removed is "absent" where the result has no such field.
Served(rows, success, removed, data) ==
    [data |-> data, success |-> success, removed |-> removed, changed |-> "absent",
     rows |-> rows]

\* handleEnsureHeaders() on a sheet holding rows.
ensureHeaders(rows) ==
    [Served(internalEnsureHeaders(rows), TRUE, "absent", <<>>)
        EXCEPT !.changed = IF headersChanged(rows) THEN "true" ELSE "false"]

\* handleAddData({date, floatValue}) on a sheet holding rows.
addData(rows, dateStr, floatValueStr) ==
    IF dateStr = "" \/ Trim(dateStr) = "" \/ Trim(floatValueStr) = ""
       \/ ~IsIsoString(dateStr) \/ ParseFloat(floatValueStr).nan
    THEN Served(rows, FALSE, "absent", <<>>)
    ELSE Served(Append(internalEnsureHeaders(rows),
                       [date |-> Trim(dateStr), value |-> ParseFloat(floatValueStr)]),
                TRUE, "absent", <<>>)

\* The rows handleGetData reads: none from a sheet of at most one row, else all
\* below the first row once the headers are in place.
DataRowsRead(rows) ==
    IF Len(rows) <= 1 THEN <<>> ELSE Tail(internalEnsureHeaders(rows))

\* handleGetData() on a sheet holding rows: a sheet of one row gets its headers
\* too.  A value cell comes back as the number it holds.
getData(rows) ==
    Served(IF Len(rows) = 0 THEN rows ELSE internalEnsureHeaders(rows),
           TRUE, "absent", DataRowsRead(rows))

\* handleRemoveData({date}) on a sheet holding rows.
removeData(rows, dateToRemoveParam) ==
    LET targetIsoString == Trim(dateToRemoveParam)
    IN IF dateToRemoveParam = "" \/ targetIsoString = "" \/ ~IsIsoString(targetIsoString)
       THEN Served(rows, FALSE, "absent", <<>>)
       ELSE IF Len(rows) <= 1
       THEN Served(rows, TRUE, "false", <<>>)
       ELSE LET ensured == internalEnsureHeaders(rows)
                i == BottomMatch(ensured, targetIsoString)
            IN IF i # 0
               THEN Served(deleteRow(ensured, i), TRUE, "true", <<>>)
               ELSE Served(ensured, TRUE, "false", <<>>)

\* The record of a request served: the sheet it found and what it answered.
SheetResult(action, date, r) ==
    [date |-> date, before |-> sheet, data |-> r.data,
     action |-> action, success |-> r.success, removed |-> r.removed,
     changed |-> r.changed, floatValue |-> ""]

\* handleEnsureHeaders
handleEnsureHeaders ==
    /\ LET r == ensureHeaders(sheet)
       IN /\ sheet' = r.rows
          /\ sheetCall' = SheetResult("ensureHeaders", "", r)
    /\ UNCHANGED clientVars

\* handleAddData({date, floatValue})
handleAddData(dateStr, floatValueStr) ==
    /\ Len(sheet) <= MaxEvents
    /\ LET r == addData(sheet, dateStr, floatValueStr)
       IN /\ sheet' = r.rows
          /\ sheetCall' = [SheetResult("add", dateStr, r) EXCEPT !.floatValue = floatValueStr]
    /\ UNCHANGED clientVars

\* handleGetData()
handleGetData ==
    /\ LET r == getData(sheet)
       IN /\ sheet' = r.rows
          /\ sheetCall' = SheetResult("get", "", r)
    /\ UNCHANGED clientVars

\* handleRemoveData({date})
handleRemoveData(dateToRemoveParam) ==
    /\ LET r == removeData(sheet, dateToRemoveParam)
       IN /\ sheet' = r.rows
          /\ sheetCall' = SheetResult("remove", dateToRemoveParam, r)
    /\ UNCHANGED clientVars

\* The sheet script serving requests, from an empty sheet on; the client stays
\* as it is before its first request is answered.
SheetInit ==
    /\ eventsData = <<>>
    /\ now = TimeOfTick(0)
    /\ pillsValue = Num(1)
    /\ hourValue = Num(12)
    /\ currentRate = RateOf(pillsValue, hourValue)
    /\ statsText = [id \in StatIds |-> InitialText]
    /\ stats = [call |-> "returned", values |-> NoValues]
    /\ chart = plotDosageGraph(<<>>, currentRate, now)
    /\ plotted = TRUE
    /\ loading = TRUE
    /\ sheetAnswer = NoAnswer
    /\ sheet = <<>>
    /\ sheetCall = NoSheetCall
    /\ PageAtRest

SheetNext ==
    \/ handleEnsureHeaders
    \/ \E d \in DateParams, v \in ValueParams : handleAddData(d, v)
    \/ handleGetData
    \/ \E d \in DateParams : handleRemoveData(d)

SheetSpec == SheetInit /\ [][SheetNext]_vars

\* The sheet is the user's own spreadsheet: the script can find it as its owner
\* left it, with or without the header row.
Row1 == [date |-> Key1, value |-> Num(1)]
Row2 == [date |-> Key2, value |-> Num(2)]
StartSheets == {<<>>, <<HeaderRow>>, <<Row1>>, <<HeaderRow, Row1>>, <<Row2, Row1>>}

\* The sheet script serving requests on such a sheet.
OwnSheetInit ==
    /\ eventsData = <<>>
    /\ now = TimeOfTick(0)
    /\ pillsValue = Num(1)
    /\ hourValue = Num(12)
    /\ currentRate = RateOf(pillsValue, hourValue)
    /\ statsText = [id \in StatIds |-> InitialText]
    /\ stats = [call |-> "returned", values |-> NoValues]
    /\ chart = plotDosageGraph(<<>>, currentRate, now)
    /\ plotted = TRUE
    /\ loading = TRUE
    /\ sheetAnswer = NoAnswer
    /\ sheet \in StartSheets
    /\ sheetCall = NoSheetCall
    /\ PageAtRest

OwnSheetSpec == OwnSheetInit /\ [][SheetNext]_vars

(***************************************************************************)
(* The page and the sheet together: every handler sends its request with   *)
(* fetchFromSheet and goes on when the response is there.  Nothing in the  *)
(* script refuses a handler while a request is outstanding.                *)
(***************************************************************************)
\* Requests outstanding at one time.
MaxRequests == 2

\* The instants of the events added on the page.
PageTimes == {e.ms : e \in IsoTexts}

\* DateTime.toISO() of an instant held in a zone: local time and offset.
toISO(dt, zone) == (CHOOSE e \in IsoTexts : e.ms = dt.ms /\ e.zone = zone).text

\* DateTime.fromISO(text): the instant the text names, whatever its offset.
fromISO(str) ==
    IF \E e \in IsoTexts : e.text = str
    THEN DT((CHOOSE e \in IsoTexts : e.text = str).ms)
    ELSE IF str = Key1 THEN DT(TimeOfTick(0))
    ELSE IF str = Key2 THEN DT(TimeOfTick(2))
    ELSE InvalidDT

\* Number.prototype.toString of an amount entered on the page.
toText(amount) == IF amount.v = 1 THEN "1" ELSE "2"

\* Variant: the row's data-raw-time is sent as it is.
RawTimeSent(rawTimeISO, zone) == rawTimeISO

\* The date removeEventFromSheet sends for a row:
\* luxon.DateTime.fromISO(rawTimeISO, {zone: timeZone}).toISO()
RemoveKey(rawTimeISO, zone) == toISO(fromISO(rawTimeISO), zone)

\* A fetchFromSheet call awaiting its response, with what its handler holds:
\* the parameters sent, the event time and amount, the table row (0: none, or a
\* row no longer in the table) and its data-raw-time.
Request(handler, date, floatValue, time, amount, row, rawTime) ==
    [date |-> date, amount |-> amount, floatValue |-> floatValue, handler |-> handler,
     row |-> row, time |-> time, rawTime |-> rawTime]

GetRequest == Request("init", "", "", InvalidDT, NaN, 0, "")

\* The response of a request that did not reach the script: the object of the
\* catch in fetchFromSheet.
FetchFailed(rows) == Served(rows, FALSE, "absent", <<>>)

\* The rows of a 'get' answer with their dates parsed.
ParsedRows(data) ==
    [i \in 1..Len(data) |-> [date |-> fromISO(data[i].date), value |-> data[i].value]]

\* populateEventRow for every event of the list, in the browser's zone.
RowsOf(evs, zone) ==
    [i \in 1..Len(evs) |-> [amount |-> evs[i].dosageAmount,
                            rawTime |-> toISO(evs[i].dosageTime, zone)]]

\* The outstanding requests are kept in one order, whatever the order they were
\* sent in: by handler, event time and row.
Rank(q) ==
    (CASE q.handler = "init" -> 0 [] q.handler = "add" -> 1 [] OTHER -> 2) * 100
    + (IF q.time.ms = TimeOfTick(0) THEN 0 ELSE 1) * 10 + q.row

RECURSIVE InsertByRank(_, _)
InsertByRank(qs, q) ==
    IF qs = <<>> THEN <<q>>
    ELSE IF Rank(Head(qs)) <= Rank(q) THEN <<Head(qs)>> \o InsertByRank(Tail(qs), q)
    ELSE <<q>> \o qs

RECURSIVE SortByRank(_)
SortByRank(qs) ==
    IF qs = <<>> THEN <<>> ELSE InsertByRank(SortByRank(Tail(qs)), Head(qs))

\* The requests left when the one at k is answered; a row taken out of the table
\* moves the rows below it up, and clearing the table leaves no row.
RequestsLeft(k, removedRow, cleared) ==
    LET left == SubSeq(requests, 1, k - 1) \o SubSeq(requests, k + 1, Len(requests))
        Moved(q) ==
            IF q.row = 0 THEN q
            ELSE IF cleared \/ q.row = removedRow THEN [q EXCEPT !.row = 0]
            ELSE IF removedRow # 0 /\ q.row > removedRow THEN [q EXCEPT !.row = q.row - 1]
            ELSE q
    IN SortByRank([i \in 1..Len(left) |-> Moved(left[i])])

\* The adds outstanding.
AddsOutstanding == Len(SelectSeq(requests, LAMBDA q : q.handler = "add"))

\* The page after construction: initializeApp has sent its 'get' and waits.
PageLoading ==
    /\ eventsData = <<>>
    /\ statsText = [id \in StatIds |-> InitialText]
    /\ stats = [call |-> "returned", values |-> NoValues]
    /\ chart = plotDosageGraph(<<>>, currentRate, now)
    /\ plotted = TRUE
    /\ loading = TRUE
    /\ sheetAnswer = NoAnswer
    /\ table = <<>>
    /\ overlay = TRUE
    /\ requests = <<GetRequest>>
    /\ done = NoneDone

PageInit ==
    /\ now = TimeOfTick(4)
    /\ pillsValue = Num(1)
    /\ hourValue = Num(12)
    /\ currentRate = RateOf(pillsValue, hourValue)
    /\ timeZone \in Zones
    /\ systemZone \in Zones
    /\ sheet = <<>>
    /\ sheetCall = NoSheetCall
    /\ PageLoading

\* window.triggerRefresh: the page is loaded again, the sheet stays.
triggerRefresh ==
    /\ requests = <<>>
    /\ eventsData' = <<>>
    /\ statsText' = [id \in StatIds |-> InitialText]
    /\ stats' = [call |-> "returned", values |-> NoValues]
    /\ chart' = plotDosageGraph(<<>>, currentRate, now)
    /\ plotted' = TRUE
    /\ loading' = TRUE
    /\ sheetAnswer' = NoAnswer
    /\ table' = <<>>
    /\ overlay' = TRUE
    /\ requests' = <<GetRequest>>
    /\ done' = NoneDone
    /\ UNCHANGED <<pillsValue, hourValue, currentRate, now, timeZone, systemZone>>
    /\ UNCHANGED sheetVars

\* addNewEventHandler up to its await: amount and time are checked, the overlay
\* is shown and the 'add' request sent.
addNewEventStart(amount, timeMs) ==
    /\ Len(requests) < MaxRequests
    /\ Len(eventsData) + AddsOutstanding < MaxEvents
    /\ Len(sheet) + AddsOutstanding <= MaxEvents
    /\ Len(table) + AddsOutstanding < MaxEvents
    /\ ~amount.nan /\ amount.v > 0
    /\ LET iso == toISO(DT(timeMs), timeZone)
       IN requests' = InsertByRank(requests,
                                   Request("add", iso, toText(amount), DT(timeMs), amount, 0, iso))
    /\ overlay' = TRUE
    /\ UNCHANGED <<eventsData, pillsValue, hourValue, currentRate, now, statsText, stats,
                   chart, plotted, loading, sheetAnswer, timeZone, systemZone, table, done>>
    /\ UNCHANGED sheetVars

\* removeDosageEntryHandler up to its await, for the button of row i.
removeDosageEntryStart(i) ==
    /\ Len(requests) < MaxRequests
    /\ i \in 1..Len(table)
    /\ fromISO(table[i].rawTime).valid
    /\ requests' = InsertByRank(requests,
                                Request("remove", RemoveKey(table[i].rawTime, timeZone), "",
                                        fromISO(table[i].rawTime), table[i].amount, i,
                                        table[i].rawTime))
    /\ overlay' = TRUE
    /\ UNCHANGED <<eventsData, pillsValue, hourValue, currentRate, now, statsText, stats,
                   chart, plotted, loading, sheetAnswer, timeZone, systemZone, table, done>>
    /\ UNCHANGED sheetVars

\* initializeApp from its await on.
initializeAppResumes(k, r) ==
    LET answer == IF r.success THEN OkAnswer(ParsedRows(r.data)) ELSE FailedAnswer
        sheetEvents == getEventsFromSheet(answer)
        evs == IF Len(sheetEvents) > 0
               THEN SortByTime(MapRows(SelectSeq(sheetEvents, RowKept)))
               ELSE eventsData
    IN /\ sheetAnswer' = answer
       /\ Refresh(evs, currentRate)
       /\ table' = IF Len(sheetEvents) > 0 THEN RowsOf(evs, systemZone) ELSE table
       /\ requests' = RequestsLeft(k, 0, Len(sheetEvents) > 0)
       /\ loading' = FALSE

\* addNewEventHandler from its await on.
addNewEventResumes(k, r) ==
    LET q == requests[k]
    IN /\ IF r.success
          THEN /\ Refresh(SortByTime(Append(eventsData,
                              [dosageTime |-> q.time, dosageAmount |-> q.amount])),
                          currentRate)
               /\ table' = Append(table, [amount |-> q.amount,
                                          rawTime |-> toISO(q.time, timeZone)])
          ELSE UNCHANGED <<eventsData, statsText, stats, chart, plotted, table>>
       /\ sheetAnswer' = NoAnswer
       /\ requests' = RequestsLeft(k, 0, FALSE)
       /\ UNCHANGED loading

\* Variant: the test of the earlier page, result.success alone.
RemoveReported(r) == r.success

\* The test removeDosageEntryHandler makes of the result: success and removed.
RemoveSucceeded(r) == r.success /\ r.removed = "true"

\* removeDosageEntryHandler from its await on.
removeDosageEntryResumes(k, r) ==
    LET q == requests[k]
        removedRow == IF RemoveSucceeded(r) THEN q.row ELSE 0
    IN /\ IF RemoveSucceeded(r)
          THEN /\ Refresh(SelectSeq(eventsData, LAMBDA e : e.dosageTime.ms # q.time.ms),
                          currentRate)
               /\ table' = IF q.row = 0 THEN table ELSE deleteRow(table, q.row)
          ELSE UNCHANGED <<eventsData, statsText, stats, chart, plotted, table>>
       /\ sheetAnswer' = NoAnswer
       /\ requests' = RequestsLeft(k, removedRow, FALSE)
       /\ UNCHANGED loading

\* What fetchFromSheet returns for a request: the result of the script's
\* handler, or the object of its catch when the script was not reached.
Response(q, reached) ==
    IF ~reached THEN FetchFailed(sheet)
    ELSE CASE q.handler = "init" -> getData(sheet)
           [] q.handler = "add" -> addData(sheet, q.date, q.floatValue)
           [] OTHER -> removeData(sheet, q.date)

\* How a handler went on: the handler and the result its request returned.
Done(q, r) == [success |-> r.success, removed |-> r.removed, handler |-> q.handler]

\* A request is answered: the script serves it, or it never gets there;
\* fetchFromSheet hides the overlay and returns, and the handler goes on to its
\* end, where it hides the overlay once more.
fetchFromSheetReturns(k, reached) ==
    /\ k \in 1..Len(requests)
    /\ LET q == requests[k]
           r == Response(q, reached)
       IN /\ sheet' = r.rows
          /\ sheetCall' =
                IF ~reached THEN sheetCall
                ELSE [SheetResult(IF q.handler = "init" THEN "get" ELSE q.handler, q.date, r)
                         EXCEPT !.floatValue = q.floatValue]
          /\ done' = Done(q, r)
          /\ CASE q.handler = "init" -> initializeAppResumes(k, r)
               [] q.handler = "add" -> addNewEventResumes(k, r)
               [] OTHER -> removeDosageEntryResumes(k, r)
    /\ overlay' = FALSE
    /\ UNCHANGED <<pillsValue, hourValue, currentRate, now, timeZone, systemZone>>

\* The script serves a 'remove' of another browser showing the same sheet, and
\* deletes a row; this page is not told.
removedElsewhere(dateToRemoveParam) ==
    /\ handleRemoveData(dateToRemoveParam)
    /\ sheetCall'.removed = "true"

\* The page as the overlay is meant to keep it: a handler is started when no
\* request is outstanding.
PageNext ==
    \/ \E a \in EventAmounts, t \in PageTimes : requests = <<>> /\ addNewEventStart(a, t)
    \/ \E i \in 1..MaxEvents : requests = <<>> /\ removeDosageEntryStart(i)
    \/ triggerRefresh
    \/ \E reached \in BOOLEAN : fetchFromSheetReturns(1, reached)
    \/ \E e \in IsoTexts : removedElsewhere(e.text)

PageSpec == PageInit /\ [][PageNext]_vars

\* The page as the script leaves it: no handler looks for a request outstanding,
\* so a second one can be started (from the keyboard, or through
\* window.addNewEvent) before the first is answered.
OverlapNext ==
    \/ \E a \in EventAmounts, t \in PageTimes : addNewEventStart(a, t)
    \/ \E i \in 1..MaxEvents : removeDosageEntryStart(i)
    \/ \E k \in 1..MaxRequests, reached \in BOOLEAN : fetchFromSheetReturns(k, reached)
    \/ triggerRefresh

OverlapSpec == PageInit /\ [][OverlapNext]_vars

(***************************************************************************)
(* Properties.                                                             *)
(***************************************************************************)
\* The last handler drew a curve from the present event list, rate and clock.
CurveDrawn == plotted /\ chart.kind = "chart"

\* The last handler wrote the statistics from the present inputs.
StatsShown == stats.call = "shown"

\* The events the curve keeps, in the order it walks them.
PlottedEvents == SortByTime(SelectSeq(eventsData, PlotValid))

LastPlottedTime == PlottedEvents[Len(PlottedEvents)].dosageTime.ms

RateIs(n, d) == currentRate.n * d = n * currentRate.d

Event(amount, ms) == [dosageTime |-> DT(ms), dosageAmount |-> Num(amount)]

\* C1: the time labels of the curve returned by calculatePlotData never decrease
\* from one point to the next, whatever the events, their order, the rate > 0
\* and now.
C1_LabelsNonDecreasing ==
    CurveDrawn =>
        \A i \in 1..(Len(chart.labels) - 1) : chart.labels[i] <= chart.labels[i + 1]

\* C2 as stated: for a non-empty list, totalIdeallyNeededByNow is
\* rate * hoursBetween(t0, now) with t0 the earliest event time.
EarliestTime ==
    CHOOSE t \in {eventsData[i].dosageTime.ms : i \in 1..Len(eventsData)} :
        \A j \in 1..Len(eventsData) : t <= eventsData[j].dosageTime.ms

C2_AnchoredAtFirstDose ==
    (StatsShown /\ eventsData # <<>>) =>
        stats.values.totalNeeded = currentRate.n * Abs(now - EarliestTime)

\* Scenario A: rate 1/12, one event of amount 1 at T0, now = T0 + 24h.
ScenarioA ==
    /\ RateIs(1, 12)
    /\ eventsData = <<Event(1, 0)>>
    /\ now = 24 * MsPerHour

\* C2, amended: with rate > 0 and a first element (amount a1 >= 0, time t1),
\* totalIdeallyNeededByNow is a1 + rate * hoursBetween(t1, now); in Scenario A
\* totalGiven = 1, totalIdeallyNeededByNow = 3 and currentDeficit = 2.
C2_AnchoredBeforeFirstDose ==
    /\ (StatsShown /\ currentRate.n > 0 /\ eventsData[1].dosageAmount.v >= 0) =>
          stats.values.totalNeeded =
              eventsData[1].dosageAmount.v * stats.values.scale
              + currentRate.n * Abs(now - eventsData[1].dosageTime.ms)
    /\ (StatsShown /\ ScenarioA) =>
          /\ stats.values.totalGiven = 1
          /\ stats.values.totalNeeded = 3 * stats.values.scale
          /\ stats.values.needed = 2 * stats.values.scale
          /\ statsText["totalGiven"] = NumText(10)
          /\ statsText["totalNeeded"] = NumText(300)
          /\ statsText["needed"] = NumText(20)

C2_Witness == StatsShown /\ ScenarioA

\* The number of points the events put on the curve: the two leading points,
\* one per event and one more per distinct event time.
EventPoints ==
    2 + Len(PlottedEvents)
      + Cardinality({PlottedEvents[i].dosageTime.ms : i \in 1..Len(PlottedEvents)})

NowBeforeLastEvent ==
    /\ stats.call \notin {"none", "threw"}
    /\ currentRate.n > 0
    /\ PlottedEvents # <<>>
    /\ now < LastPlottedTime

\* C3 as stated: with now before the last event the curve still ends with one
\* more point, at now.
C3_FinalPointAtNow ==
    NowBeforeLastEvent =>
        /\ CurveDrawn
        /\ Len(chart.labels) = EventPoints + 1
        /\ chart.labels[Len(chart.labels)] = now

\* C3, amended: with now before the last event no point is appended for now;
\* the curve is drawn without an exception, holds the points of the events and
\* no other, and ends at the last event's time.
C3_NoPointBeforeLastEvent ==
    NowBeforeLastEvent =>
        /\ CurveDrawn
        /\ Len(chart.labels) = EventPoints
        /\ chart.labels[Len(chart.labels)] = LastPlottedTime

C3_Witness == NowBeforeLastEvent /\ CurveDrawn /\ Len(PlottedEvents) = 2

\* C4: after projecting an empty event list, whatever the rate and now, the
\* curve is empty and no statistic shows a number or a time: none is left from
\* an earlier projection.  (The page's own content, before anything was written,
\* is taken as not a number.)
C4_EmptyAllUnavailable ==
    (eventsData = <<>> /\ stats.call # "none") =>
        /\ \A id \in StatIds : statsText[id].k \notin {"number", "time"}
        /\ plotted /\ chart.labels = <<>>

\* C5: currentDeficit, the 'needed' statistic, is never negative, also when the
\* total given exceeds the ideal cumulative amount at now.
C5_DeficitNeverNegative ==
    /\ StatsShown => stats.values.needed >= 0
    /\ statsText["needed"].k = "number" => statsText["needed"].v >= 0

C5_Witness ==
    /\ StatsShown
    /\ stats.values.totalGiven * stats.values.scale > stats.values.totalNeeded
    /\ stats.values.needed = 0

\* The sum of the numeric amounts of a list, taken in no particular order.
RECURSIVE SumOver(_, _)
SumOver(evs, idx) ==
    IF idx = {} THEN 0
    ELSE LET i == CHOOSE j \in idx : TRUE
         IN (IF evs[i].dosageAmount.nan THEN 0 ELSE evs[i].dosageAmount.v)
            + SumOver(evs, idx \ {i})

\* Every reordering of the event list.
Reorderings ==
    LET n == Len(eventsData)
        Bijections == {f \in [1..n -> 1..n] : \A i, j \in 1..n : f[i] = f[j] => i = j}
    IN {[i \in 1..n |-> eventsData[f[i]]] : f \in Bijections}

\* C6: totalGiven is the sum of the parseable amounts of the events, and is the
\* same for every ordering of the same events.
C6_TotalGivenIsSum ==
    /\ StatsShown =>
          /\ stats.values.totalGiven = SumOver(eventsData, DOMAIN eventsData)
          /\ statsText["totalGiven"] = NumText(10 * stats.values.totalGiven)
    /\ \A p \in Reorderings :
          LET r == updateStatisticsDisplay(p, currentRate, now, statsText)
          IN (StatsShown /\ r.call = "shown") =>
                r.values.totalGiven = stats.values.totalGiven

C6_Witness ==
    /\ StatsShown
    /\ Len(eventsData) = 2
    /\ eventsData[2].dosageAmount.nan
    /\ eventsData[1].dosageAmount.v = 1
    /\ eventsData[1].dosageTime.ms < eventsData[2].dosageTime.ms

\* No event has a negative amount (an amount may be 0 or not numeric).
NoNegativeAmount ==
    \A i \in 1..Len(eventsData) :
        eventsData[i].dosageAmount.nan \/ eventsData[i].dosageAmount.v >= 0

\* Every event has a numeric amount > 0.
PositiveAmounts ==
    \A i \in 1..Len(eventsData) :
        ~eventsData[i].dosageAmount.nan /\ eventsData[i].dosageAmount.v > 0

\* C7: with rate = 0, whatever the events and now, the threshold statistics are
\* unavailable and never numeric, totalGiven is the sum of the amounts,
\* totalIdeallyNeededByNow = 0 and currentDeficit = 0.  (Asked of events without
\* a negative amount; for an empty list only the threshold part is asked, as C4
\* wants every statistic unavailable there.)
C7_ZeroRate ==
    (currentRate.n = 0 /\ stats.call # "none" /\ NoNegativeAmount) =>
        /\ \A id \in {"half", "half_time", "one", "one_time"} :
              statsText[id].k \notin {"number", "time"}
        /\ eventsData # <<>> =>
              /\ StatsShown
              /\ stats.values.totalGiven = SumOver(eventsData, DOMAIN eventsData)
              /\ stats.values.totalNeeded = 0
              /\ stats.values.needed = 0

\* C8: the statistics and the curve are the same for every permutation of the
\* event list (asked of events with numeric amounts > 0).
C8_OrderIndependent ==
    \A p \in Reorderings :
        /\ (StatsShown /\ PositiveAmounts) =>
              LET r == updateStatisticsDisplay(p, currentRate, now, statsText)
              IN r.call = "shown" /\ r.values = stats.values
        /\ (CurveDrawn /\ PositiveAmounts) => plotDosageGraph(p, currentRate, now) = chart

\* The index, on the curve, of the point after the dose of the k-th event.
PostIndex(k) ==
    2 + k + Cardinality({PlottedEvents[i].dosageTime.ms : i \in 1..k})

\* C9: every event (amount a, time t) has a point for the deficit just before
\* the dose, followed by a point at t whose deficit is a lower; between two
\* consecutive doses at different times the deficit rises by rate * hours.
C9_StairStep ==
    CurveDrawn =>
        /\ \A k \in 1..Len(PlottedEvents) :
              LET i == PostIndex(k)
                  t == PlottedEvents[k].dosageTime.ms
              IN /\ i <= Len(chart.labels)
                 /\ chart.labels[i] = t
                 /\ chart.labels[i - 1] \in {t - 1, t}
                 /\ chart.data[i - 1] - chart.data[i]
                       = PlottedEvents[k].dosageAmount.v * chart.scale
        /\ \A k \in 1..(Len(PlottedEvents) - 1) :
              LET t1 == PlottedEvents[k].dosageTime.ms
                  t2 == PlottedEvents[k + 1].dosageTime.ms
              IN t1 # t2 =>
                    chart.data[PostIndex(k + 1) - 1] - chart.data[PostIndex(k)]
                       = currentRate.n * (t2 - t1)

C9_Witness ==
    /\ CurveDrawn
    /\ Len(PlottedEvents) = 2
    /\ PlottedEvents[1].dosageTime.ms < PlottedEvents[2].dosageTime.ms
    /\ PlottedEvents[1].dosageAmount.v > 0
    /\ PlottedEvents[2].dosageAmount.v > 0

\* C10: the curve never holds two adjacent points with the same time and the
\* same deficit.
C10_NoAdjacentDuplicates ==
    CurveDrawn =>
        \A i \in 1..(Len(chart.labels) - 1) :
            ~(chart.labels[i] = chart.labels[i + 1] /\ chart.data[i] = chart.data[i + 1])

\* The positions, among the plotted events, of those at time t.
EventsAt(t) == {k \in 1..Len(PlottedEvents) : PlottedEvents[k].dosageTime.ms = t}

\* The times that two or more plotted events share.
SharedTimes ==
    {t \in {PlottedEvents[k].dosageTime.ms : k \in 1..Len(PlottedEvents)} :
        Cardinality(EventsAt(t)) >= 2}

RECURSIVE SumPlotted(_)
SumPlotted(ks) ==
    IF ks = {} THEN 0
    ELSE LET k == CHOOSE j \in ks : TRUE
         IN PlottedEvents[k].dosageAmount.v + SumPlotted(ks \ {k})

Smallest(ks) == CHOOSE k \in ks : \A j \in ks : k <= j
Largest(ks) == CHOOSE k \in ks : \A j \in ks : k >= j

\* C11: when events with amounts > 0 share a timestamp T, the curve has a drop
\* at T for each of them, the deficit after the last is lower than the deficit
\* before the first by the sum of their amounts, and the curve holds no
\* repeated identical point.
C11_SharedTimestamp ==
    (CurveDrawn /\ PositiveAmounts /\ SharedTimes # {}) =>
        /\ \A t \in SharedTimes :
              /\ \A k \in EventsAt(t) :
                    /\ chart.labels[PostIndex(k)] = t
                    /\ chart.data[PostIndex(k) - 1] - chart.data[PostIndex(k)]
                          = PlottedEvents[k].dosageAmount.v * chart.scale
              /\ chart.data[PostIndex(Smallest(EventsAt(t))) - 1]
                    - chart.data[PostIndex(Largest(EventsAt(t)))]
                    = SumPlotted(EventsAt(t)) * chart.scale
        /\ \A i \in 1..(Len(chart.labels) - 1) :
              ~(chart.labels[i] = chart.labels[i + 1] /\ chart.data[i] = chart.data[i + 1])

\* C12: whatever the pills and hour inputs hold, the rate is >= 0; it is 0 when
\* either input is not numeric or hours is 0, and pills / hours otherwise.
C12_RateFromInputs ==
    /\ currentRate.n >= 0 /\ currentRate.d > 0
    /\ (pillsValue.nan \/ hourValue.nan \/ hourValue.v = 0) => currentRate.n = 0
    /\ (~pillsValue.nan /\ ~hourValue.nan /\ hourValue.v # 0) =>
          currentRate.n * hourValue.v = pillsValue.v * currentRate.d

\* C13: with rate > 0 the hours until half a unit is owed are
\* (0.5 - currentDeficit) / rate and the hours until a full unit is owed are
\* (1.0 - currentDeficit) / rate; they differ by 0.5 / rate, and each is negative
\* exactly when currentDeficit already exceeds its threshold.  The two are
\* displayed with one decimal.
C13_Thresholds ==
    (StatsShown /\ currentRate.n > 0) =>
        LET v == stats.values
        IN /\ v.thresholds
           /\ v.perHour = MsPerHour * currentRate.n
           /\ 2 * v.half = v.scale - 2 * v.needed
           /\ v.one = v.scale - v.needed
           /\ 2 * (v.one - v.half) = v.scale
           /\ (v.half < 0) <=> (2 * v.needed > v.scale)
           /\ (v.one < 0) <=> (v.needed > v.scale)
           /\ statsText["half"] = NumText(toFixed(v.half, v.perHour, 1))
           /\ statsText["one"] = NumText(toFixed(v.one, v.perHour, 1))

\* Scenario A: 2 units are owed, so the half-unit threshold lies 18 hours back
\* and the full-unit threshold 12 hours back.
C13_Witness ==
    /\ StatsShown /\ ScenarioA
    /\ stats.values.one < 0
    /\ statsText["half"] = NumText(0 - 180)
    /\ statsText["one"] = NumText(0 - 120)

\* A sheet row whose timestamp parses.
WellFormed(row) == row.date.valid

\* initializeApp has just run on an answer holding a row with a malformed
\* timestamp.
LoadedMalformed ==
    /\ ~loading
    /\ sheetAnswer.status = "ok"
    /\ \E i \in 1..Len(sheetAnswer.data) : ~WellFormed(sheetAnswer.data[i])

\* The events of the well-formed rows of the answer, in time order.
RemainingEvents == SortByTime(MapRows(SelectSeq(sheetAnswer.data, WellFormed)))

\* C14: a row with a malformed timestamp is left out of the timeline: the event
\* list holds the remaining rows and no other, and the statistics (totalGiven
\* and the anchor with them) and the curve are those of the remaining rows.
C14_MalformedTimestampOmitted ==
    LoadedMalformed =>
        /\ eventsData = RemainingEvents
        /\ \A i \in 1..Len(eventsData) : eventsData[i].dosageTime.valid
        /\ LET st == updateStatisticsDisplay(RemainingEvents, currentRate, now,
                                             [id \in StatIds |-> InitialText])
           IN /\ stats = [call |-> st.call, values |-> st.values]
              /\ statsText = st.text
              /\ st.call # "threw" =>
                    plotted /\ chart = plotDosageGraph(RemainingEvents, currentRate, now)
        /\ StatsShown =>
              stats.values.totalGiven = SumOver(RemainingEvents, DOMAIN RemainingEvents)

C14_Witness ==
    /\ LoadedMalformed
    /\ Len(sheetAnswer.data) = 2
    /\ ~WellFormed(sheetAnswer.data[1])
    /\ ~sheetAnswer.data[1].value.nan /\ sheetAnswer.data[1].value.v = 1
    /\ Len(eventsData) = 1
    /\ StatsShown /\ CurveDrawn
    /\ stats.values.totalGiven = 1

\* The event list with every non-numeric amount replaced by 0.
RECURSIVE NonNumericAsZero(_)
NonNumericAsZero(evs) ==
    IF evs = <<>> THEN <<>>
    ELSE <<[Head(evs) EXCEPT !.dosageAmount = IF @.nan THEN Num(0) ELSE @]>>
         \o NonNumericAsZero(Tail(evs))

SomeNonNumericAmount == \E i \in 1..Len(eventsData) : eventsData[i].dosageAmount.nan

\* C15: an event with a non-numeric amount counts as an event of amount 0: no
\* exception is raised, and the statistics and the curve are those of the list
\* in which that amount is 0.
C15_NonNumericAmountAsZero ==
    (SomeNonNumericAmount /\ stats.call # "none") =>
        LET zeroed == NonNumericAsZero(eventsData)
            st == updateStatisticsDisplay(zeroed, currentRate, now, statsText)
        IN /\ stats.call # "threw"
           /\ stats = [call |-> st.call, values |-> st.values]
           /\ plotted /\ chart = plotDosageGraph(zeroed, currentRate, now)

\* The data rows of the sheet, before the request, whose date is the key asked.
RowsWithKey ==
    {i \in 2..Len(sheetCall.before) : sheetCall.before[i].date = Trim(sheetCall.date)}

LoadFailed == ~loading /\ sheetAnswer.status = "failed"

\* C17: when fetching the events fails, initializeApp completes without
\* raising, the event list is empty, and the statistics and the graph are those
\* of the empty list: every statistic 'N/A' at rate 0 and nothing written
\* otherwise, and the 'no data' text in place of the chart.
C17_FetchFailureEmptyList ==
    LoadFailed =>
        /\ eventsData = <<>>
        /\ stats.call \in {"na", "returned"}
        /\ stats.call = "na" <=> currentRate.n = 0
        /\ statsText = [id \in StatIds |-> IF currentRate.n = 0 THEN NAText ELSE InitialText]
        /\ plotted
        /\ chart = [labels |-> <<>>, data |-> <<>>, kind |-> "nodata", scale |-> 1]

C17_Witness == LoadFailed /\ currentRate.n > 0 /\ plotted /\ stats.call = "returned"

\* The projected start the statistics compute from the first event; it is not
\* a valid instant at rate 0.
StatsProjectedStart ==
    ProjectedStart(eventsData[1].dosageTime, eventsData[1].dosageAmount, currentRate)

\* The instants calculateHoursBetween is applied to in the present state.
InstantsInUse ==
    {DT(now)}
    \cup {eventsData[i].dosageTime : i \in 1..Len(eventsData)}
    \cup (IF StatsShown THEN {StatsProjectedStart.dt} ELSE {})

\* C18: calculateHoursBetween(a, b) is never negative, is the same for (b, a),
\* is 0 for a = b, is |b - a| in hours for two valid instants, and is 0 when an
\* argument is not a valid instant.
C18_HoursBetween ==
    \A a, b \in InstantsInUse :
        /\ calculateHoursBetween(a, b) >= 0
        /\ calculateHoursBetween(a, b) = calculateHoursBetween(b, a)
        /\ a = b => calculateHoursBetween(a, b) = 0
        /\ (a.valid /\ b.valid) => calculateHoursBetween(a, b) = Abs(b.ms - a.ms)
        /\ (~a.valid \/ ~b.valid) => calculateHoursBetween(a, b) = 0

\* The statistics were written at rate 0, where the projected start is invalid,
\* with now before the first event.
C18_Witness ==
    /\ StatsShown
    /\ ~StatsProjectedStart.dt.valid
    /\ now < eventsData[1].dosageTime.ms
    /\ stats.values.totalNeeded = 0

\* The event list initializeApp builds from the answer it received.
LoadedList(answer, current) ==
    IF answer.status = "ok" /\ answer.data # <<>>
    THEN SortByTime(MapRows(SelectSeq(answer.data, WellFormed)))
    ELSE current

InputsUnchanged ==
    /\ pillsValue' = pillsValue
    /\ hourValue' = hourValue
    /\ currentRate' = currentRate

\* C19: computing the statistics and the curve changes neither the event list
\* (elements and order), nor the rate, nor the stored inputs.  Every step
\* leaves the list as its handler made it (loaded, one event added in time
\* order, the events of one instant removed, or as it was), and the rate and
\* the stored inputs as they were unless an input was changed.
C19_ProjectionFrame ==
    [][ /\ currentRate' = RateOf(pillsValue', hourValue')
        /\ IF loading
           THEN /\ eventsData' = LoadedList(sheetAnswer', eventsData)
                /\ InputsUnchanged
           ELSE \/ eventsData' = eventsData
                \/ /\ InputsUnchanged
                   /\ \E e \in EventValues :
                         eventsData' = SortByTime(Append(eventsData, e))
                \/ /\ InputsUnchanged
                   /\ \E t \in EventTimes :
                         /\ \E i \in 1..Len(eventsData) : eventsData[i].dosageTime = t
                         /\ eventsData' =
                               SelectSeq(eventsData, LAMBDA e : e.dosageTime # t)
      ]_vars

\* The curve was drawn from a list holding an event the curve leaves out, and
\* the list still holds it.
C19_Witness ==
    /\ CurveDrawn
    /\ Len(eventsData) = 2
    /\ \E i \in 1..2 : ~PlotValid(eventsData[i])

\* C20: every event of the client's list has a numeric amount > 0, whether it
\* was added through addNewEventHandler or loaded from the sheet by
\* initializeApp.
C20_AmountsPositive ==
    \A i \in 1..Len(eventsData) :
        ~eventsData[i].dosageAmount.nan /\ eventsData[i].dosageAmount.v > 0

\* The instant of the last event of the list, all of whose times are valid.
LastEventTime == Largest({eventsData[i].dosageTime.ms : i \in 1..Len(eventsData)})

\* A non-empty list, rate > 0 and now at or after the last event.
NowAtOrAfterLastEvent ==
    /\ eventsData # <<>>
    /\ stats.call # "none"
    /\ currentRate.n > 0
    /\ now >= LastEventTime

\* max(0, d) for the deficit d of the final point of the curve.
FinalPointClamped ==
    LET d == chart.data[Len(chart.data)] IN IF d > 0 THEN d ELSE 0

\* C21: whenever the event list is non-empty, rate > 0 and now is at or after the
\* last event, the 'needed' statistic equals max(0, d), d being the deficit of
\* the final point of the curve drawn from the same events, rate and now.
C21_DeficitMatchesCurve ==
    NowAtOrAfterLastEvent =>
        /\ StatsShown /\ CurveDrawn
        /\ chart.labels[Len(chart.labels)] = now
        /\ stats.values.scale = chart.scale
        /\ stats.values.needed = FinalPointClamped

\* The rows of a sheet that are not the header row.
DataRows(rows) == LET NotHeader(r) == r # HeaderRow IN SelectSeq(rows, NotHeader)

\* The texts among the parameters that are ISO dates or date-times, and those
\* that are numbers.
IsoDateTexts == {Key1, Key2}
NumericTexts == {"1", "2"}
NumberOfText(str) == IF str = "1" THEN Num(1) ELSE Num(2)

\* C27: handleAddData with a missing or blank date, a date that is no ISO date or
\* date-time, or a missing or non-numeric floatValue returns success = false and
\* leaves the sheet unchanged; otherwise it appends exactly one row
\* [date, value] as the last row and keeps every data row there was, in order.
C27_AddValidated ==
    sheetCall.action = "add" =>
        IF sheetCall.date \notin IsoDateTexts \/ sheetCall.floatValue \notin NumericTexts
        THEN ~sheetCall.success /\ sheet = sheetCall.before
        ELSE /\ sheetCall.success
             /\ sheet # <<>>
             /\ sheet[Len(sheet)] = [date |-> sheetCall.date,
                                     value |-> NumberOfText(sheetCall.floatValue)]
             /\ DataRows(sheet) = Append(DataRows(sheetCall.before), sheet[Len(sheet)])

\* C28: after _internalEnsureHeaders has run the first row of the sheet is
\* [Date, Amount]; a second run reports changed = false and leaves the sheet as
\* it is; and the data rows there were are all kept, as they were and in order.
C28_EnsureHeaders ==
    sheetCall.action = "ensureHeaders" =>
        /\ sheet # <<>> /\ sheet[1] = HeaderRow
        /\ sheetCall.changed = (IF sheetCall.before = sheet THEN "false" ELSE "true")
        /\ ensureHeaders(sheet).changed = "false"
        /\ ensureHeaders(sheet).rows = sheet
        /\ DataRows(sheet) = DataRows(sheetCall.before)

\* The headers were inserted above two data rows of a sheet that had none.
C28_Witness ==
    /\ sheetCall.action = "ensureHeaders"
    /\ sheetCall.before = <<Row2, Row1>>
    /\ sheetCall.changed = "true"
    /\ sheet = <<HeaderRow, Row2, Row1>>

\* C29: handleGetData returns exactly one entry per data row of the sheet (every
\* row that is not the header), in sheet order, also when the sheet holds a
\* single data row and no header row.
C29_GetReturnsDataRows ==
    sheetCall.action = "get" =>
        /\ sheetCall.success
        /\ sheetCall.data = DataRows(sheetCall.before)

\* C26: after initializeApp and after any sequence of successful add and remove
\* operations, eventsData is sorted ascending by timestamp.
C26_SortedByTime ==
    ~loading =>
        \A i \in 1..Len(eventsData), j \in 1..Len(eventsData) :
            i < j => eventsData[i].dosageTime.ms <= eventsData[j].dosageTime.ms

\* The sheet answered with the later row first; the list holds the earlier first.
C26_Witness ==
    /\ ~loading
    /\ Len(sheetAnswer.data) = 2
    /\ sheetAnswer.data[1].date.valid /\ sheetAnswer.data[2].date.valid
    /\ sheetAnswer.data[1].date.ms > sheetAnswer.data[2].date.ms
    /\ Len(eventsData) = 2
    /\ eventsData[1].dosageTime.ms < eventsData[2].dosageTime.ms

\* A step of addNewEventHandler or removeDosageEntryHandler that changed the list.
AddOrRemoveStep ==
    \/ \E a \in EventAmounts, t \in EventTimes : addNewEventHandler(a, t.ms)
    \/ \E t \in EventTimes : removeDosageEntryHandler(t.ms)

\* C23: after every completed successful add or remove the displayed totalGiven
\* is the sum of the amounts of the updated eventsData, and when the update
\* leaves eventsData empty the statistics show unavailable, not the values
\* computed before the removal.
C23_RefreshedAfterMutation ==
    [][ AddOrRemoveStep =>
          IF eventsData' = <<>>
          THEN \A id \in StatIds : statsText'[id] = NAText
          ELSE statsText'["totalGiven"] =
                  NumText(10 * SumOver(eventsData', DOMAIN eventsData'))
      ]_vars

\* The number of entries of a sequence that satisfy a test.
CountOf(seq, Test(_)) == Len(SelectSeq(seq, Test))

\* The list of the page and the data rows of the sheet hold the same entries,
\* each as many times: for every instant and amount, as many events as rows.
SameEntries ==
    /\ \A i \in 1..Len(eventsData) :
          LET e == eventsData[i]
              SameEvent(x) == x = e
              SameRow(row) == fromISO(row.date) = e.dosageTime /\ row.value = e.dosageAmount
          IN CountOf(eventsData, SameEvent) = CountOf(DataRows(sheet), SameRow)
    /\ \A j \in 1..Len(DataRows(sheet)) :
          LET row == DataRows(sheet)[j]
              OfRow(x) == x.dosageTime = fromISO(row.date) /\ x.dosageAmount = row.value
          IN CountOf(eventsData, OfRow) >= 1

\* The step is the end of an add or a remove the sheet reported done.
MutationDone ==
    /\ requests # <<>>
    /\ requests' = <<>>
    /\ done'.handler \in {"add", "remove"}
    /\ done'.success
    /\ done'.handler = "remove" => done'.removed = "true"

\* C22: a successful add or remove started with the list of the page and the
\* data rows of the sheet holding the same multiset of (timestamp, amount)
\* leaves them holding the same multiset, also when two events share a
\* timestamp: the remove drops one event on the page as it deletes one row.
C22_ListMatchesSheet == [][(SameEntries /\ MutationDone) => SameEntries']_vars

\* The step is the end of a handler whose request the sheet did not carry out:
\* an add answered with failure, or a remove answered with failure or with
\* removed false.
MutationRefused ==
    /\ Len(requests') < Len(requests)
    /\ \/ done'.handler = "add" /\ ~done'.success
       \/ done'.handler = "remove" /\ (~done'.success \/ done'.removed # "true")

\* C24: when the sheet reports failure for an add, or failure or removed false
\* for a remove, the handler leaves eventsData and the rows of the event table
\* as they were.
C24_RefusedLeavesPage == [][MutationRefused => UNCHANGED <<eventsData, table>>]_vars

\* A remove of a present event was answered success with removed false, the row
\* being deleted from the sheet by another browser; the event and its row stay.
C24_Witness ==
    /\ done.handler = "remove" /\ done.success /\ done.removed = "false"
    /\ requests = <<>>
    /\ eventsData # <<>> /\ Len(table) = Len(eventsData)
    /\ DataRows(sheet) = <<>>

\* An add that did not reach the script left the list and the table empty.
C24_AddFailed ==
    /\ done.handler = "add" /\ ~done.success
    /\ requests = <<>>
    /\ eventsData = <<>> /\ table = <<>>

\* The data rows of a sheet that hold the instant a date text names.
RowsAtInstant(rows, str) ==
    LET AtInstant(row) == fromISO(row.date) = fromISO(str)
    IN SelectSeq(DataRows(rows), AtInstant)

\* The removes of the page that wait for their answer.
RemovesOutstanding == {i \in 1..Len(requests) : requests[i].handler = "remove"}

\* C25: with the time zone of the page unchanged, the date a remove sends is,
\* character for character, the date text of every row the sheet holds for that
\* instant, whether the event was added in this session or loaded at start-up;
\* and a remove served on a sheet holding a row for the instant it names deletes
\* a row.
C25_RemoveKeyIsStoredDate ==
    /\ \A i \in RemovesOutstanding :
          LET q == requests[i]
              stored == RowsAtInstant(sheet, q.date)
          IN /\ fromISO(q.date) = q.time
             /\ \A j \in 1..Len(stored) : stored[j].date = q.date
    /\ (sheetCall.action = "remove" /\ RowsAtInstant(sheetCall.before, sheetCall.date) # <<>>)
          => sheetCall.removed = "true"

\* A remove waits for its answer for an event loaded at start-up in a browser
\* whose zone is not the zone of the page: the text kept with the table row is
\* not the date sent, and the sheet holds a row under the date sent.
C25_Witness ==
    \E i \in RemovesOutstanding :
        /\ requests[i].rawTime # requests[i].date
        /\ \E j \in 1..Len(sheet) : sheet[j].date = requests[i].date

\* C30: the loading overlay is shown while a fetchFromSheet request is
\* outstanding, also when two requests overlap, and hidden once every request
\* and handler has finished.
C30_OverlayWhileOutstanding ==
    /\ requests # <<>> => overlay
    /\ requests = <<>> => ~overlay

====
